---- MODULE Spec2Model ----
(***************************************************************************)
(* A model of the soapclient v2 package: the request envelope              *)
(* (src/request.go), the response decoder and the client call              *)
(* (src/v2/client.go) and the Fault error (src/unnamed/part_000).          *)
(*                                                                         *)
(* Three specifications share the variables:                               *)
(*   SpecParse  Parse(data, v) on bounded response documents               *)
(*   SpecReq    NewRequest / option closures / Serialize                   *)
(*   Spec       NewClient / NewRequest / option closures / CallWithContext *)
(***************************************************************************)
EXTENDS Naturals, Sequences, FiniteSets, TLC

VARIABLES
    client,   \* the *Client the caller holds
    request,  \* the *Request the caller holds
    opts,     \* the options handed to the last NewRequest
    wire,     \* what the last Serialize wrote
    httpReq,  \* the outbound *http.Request of the last call
    data,     \* the bytes the last call handed to Parse
    v,        \* the destination as it was when the last call started
    dest,     \* the destination as the last call left it
    err,      \* the error the last operation returned
    res,      \* what the transport returned to the last call
    parsed,   \* whether the last call invoked Parse
    op        \* the last operation

vars == <<client, request, opts, wire, httpReq, data, v, dest, err, res, parsed, op>>

----------------------------------------------------------------------------
(* Bounds *)

\* the most children (elements and other tokens) of a response Body
MaxChildren == 3
\* the most attributes a request carries
MaxAttrs == 3
\* the most header elements handed to NewRequest
MaxHeaders == 2

----------------------------------------------------------------------------
(* Errors.  A Go error is a kind, its message and, for a Fault, the Fault. *)

NoFault == [Code |-> "", String |-> "", Actor |-> "", Detail |-> ""]

FaultErrorSwapped(f) ==
    "Soap Fault: " \o f.Code \o ": [" \o f.String \o "] " \o f.Actor

\* func (f *Fault) Error() string
FaultError(f) ==
    "Soap Fault: " \o f.Code \o ": [" \o f.Actor \o "] " \o f.String

NoError == [kind |-> "nil", msg |-> "", fault |-> NoFault]

ErrorOf(kind, msg) == [kind |-> kind, msg |-> msg, fault |-> NoFault]

\* a *Fault returned as the error value
FaultAsError(f) == [kind |-> "fault", msg |-> FaultError(f), fault |-> f]

MsgNilContent == "Content must be a pointer to a struct"
MsgMultiple ==
    "Found multiple elements inside SOAP body; not wrapped-document/literal WS-I compliant"

----------------------------------------------------------------------------
(* Response documents.                                                     *)
(* A document is zero bytes, text that is no XML, or an XML document with  *)
(* a root element and, possibly, a Body whose children are listed in       *)
(* document order.  A child is a whole element (a StartElement with its    *)
(* subtree, which DecodeElement consumes), a non-element token (CharData,  *)
(* Comment, ...) or a place where the tokenizer fails (malformed markup or *)
(* a premature end of input).                                              *)

SoapNS == "http://schemas.xmlsoap.org/soap/envelope/"
AppNS == "urn:app"

\* a nil destination; any other value is a pointer to a struct holding it
NilDest == "nil"
DestValues == {NilDest, "zero", "old"}
Payloads == {"r1", "r2"}

Element(space, local, val, f) ==
    [t |-> "start", space |-> space, local |-> local, val |-> val, fault |-> f]

FaultElements ==
    { Element(SoapNS, "Fault", "",
              [Code |-> "Server.Error", String |-> "boom", Actor |-> a, Detail |-> ""])
        : a \in {"svc", ""} }

AppElements ==
    { Element(AppNS, "Resp", p, NoFault) : p \in Payloads }
      \cup { Element(AppNS, "Fault", "r1", NoFault),
             Element(SoapNS, "Resp", "r2", NoFault) }

CharData == [t |-> "chardata", space |-> "", local |-> "", val |-> "", fault |-> NoFault]
BadToken == [t |-> "bad", space |-> "", local |-> "", val |-> "", fault |-> NoFault]

Children == FaultElements \cup AppElements \cup {CharData, BadToken}

SeqsUpTo(S, n) == UNION { [1..k -> S] : k \in 0..n }

EmptyData == [kind |-> "empty", root |-> "", hasBody |-> FALSE, body |-> <<>>]
Garbage == [kind |-> "garbage", root |-> "", hasBody |-> FALSE, body |-> <<>>]

XmlDoc(root, hasBody, body) ==
    [kind |-> "xml", root |-> root, hasBody |-> hasBody, body |-> body]

Docs ==
    {EmptyData, Garbage, XmlDoc("Other", FALSE, <<>>), XmlDoc("Envelope", FALSE, <<>>)}
      \cup { XmlDoc("Envelope", TRUE, b) : b \in SeqsUpTo(Children, MaxChildren) }

IsElement(c) == c.t = "start"

\* line 66: the reserved Fault name
IsFaultName(c) == c.space = SoapNS /\ c.local = "Fault"

----------------------------------------------------------------------------
(* ResponseSOAPBody.UnmarshalXML.  b is the body being filled: its Fault,  *)
(* its Content (the destination pointer, set to nil by a Fault), and the   *)
(* struct the destination points to.                                       *)

NewBodyConsumed(dst) ==
    [Fault |-> NoFault, hasFault |-> FALSE,
     Content |-> IF dst = NilDest THEN "nil" ELSE "ptr",
     dest |-> dst, consumed |-> TRUE, err |-> NoError]

\* env.Body = ResponseSOAPBody{Content: v} and the loop's variables
NewBody(dst) ==
    [Fault |-> NoFault, hasFault |-> FALSE,
     Content |-> IF dst = NilDest THEN "nil" ELSE "ptr",
     dest |-> dst, consumed |-> FALSE, err |-> NoError]

RECURSIVE BodyLoopNoConsumedCheck(_, _)
BodyLoopNoConsumedCheck(toks, b) ==
    IF toks = <<>> THEN b
    ELSE LET tk == Head(toks) IN
      CASE tk.t = "bad" -> [b EXCEPT !.err = ErrorOf("syntax", "XML syntax error")]
        [] tk.t = "start" ->
             IF IsFaultName(tk)
               THEN BodyLoopNoConsumedCheck(Tail(toks),
                      [b EXCEPT !.Fault = tk.fault, !.hasFault = TRUE,
                                !.Content = "nil", !.consumed = TRUE])
               ELSE BodyLoopNoConsumedCheck(Tail(toks),
                      [b EXCEPT !.dest = tk.val, !.consumed = TRUE])
        [] OTHER -> BodyLoopNoConsumedCheck(Tail(toks), b)

RECURSIVE BodyLoopFaultIntoContent(_, _)
BodyLoopFaultIntoContent(toks, b) ==
    IF toks = <<>> THEN b
    ELSE LET tk == Head(toks) IN
      CASE tk.t = "bad" -> [b EXCEPT !.err = ErrorOf("syntax", "XML syntax error")]
        [] tk.t = "start" ->
             IF b.consumed
               THEN [b EXCEPT !.err = ErrorOf("unmarshal", MsgMultiple)]
               ELSE IF IsFaultName(tk)
                 THEN BodyLoopFaultIntoContent(Tail(toks),
                        [b EXCEPT !.Fault = tk.fault, !.hasFault = TRUE,
                                  !.dest = "fault", !.consumed = TRUE])
                 ELSE BodyLoopFaultIntoContent(Tail(toks),
                        [b EXCEPT !.dest = tk.val, !.consumed = TRUE])
        [] OTHER -> BodyLoopFaultIntoContent(Tail(toks), b)

\* lines 52-86: the token loop.  The end of toks is the Body's EndElement.
RECURSIVE BodyLoop(_, _)
BodyLoop(toks, b) ==
    IF toks = <<>> THEN b                                 \* EndElement: break Loop
    ELSE LET tk == Head(toks) IN
      CASE tk.t = "bad" ->                                \* d.Token() fails
             [b EXCEPT !.err = ErrorOf("syntax", "XML syntax error")]
        [] tk.t = "start" ->
             IF b.consumed
               THEN [b EXCEPT !.err = ErrorOf("unmarshal", MsgMultiple)]
               ELSE IF IsFaultName(tk)
                 THEN BodyLoop(Tail(toks),
                        [b EXCEPT !.Fault = tk.fault, !.hasFault = TRUE,
                                  !.Content = "nil", !.consumed = TRUE])
                 ELSE BodyLoop(Tail(toks),
                        [b EXCEPT !.dest = tk.val, !.consumed = TRUE])
        [] OTHER -> BodyLoop(Tail(toks), b)               \* any other token

UnmarshalXMLNoNilCheck(toks, b) == BodyLoop(toks, b)

\* lines 41-89
UnmarshalXML(toks, b) ==
    IF b.Content = "nil"
      THEN [b EXCEPT !.err = ErrorOf("unmarshal", MsgNilContent)]
      ELSE BodyLoop(toks, b)

\* xml.Unmarshal(data, env) with env.Body = ResponseSOAPBody{Content: v}
XmlUnmarshal(d, dst) ==
    LET b == NewBody(dst) IN
    CASE d.kind = "empty" -> [b EXCEPT !.err = ErrorOf("syntax", "EOF")]
      [] d.kind = "garbage" -> [b EXCEPT !.err = ErrorOf("syntax", "XML syntax error")]
      [] d.root # "Envelope" ->
           [b EXCEPT !.err = ErrorOf("unmarshal", "expected element type <Envelope>")]
      [] ~d.hasBody -> b
      [] OTHER -> UnmarshalXML(d.body, b)

\* func Parse(data []byte, v interface{}) error: the error and the
\* destination as the call leaves it
Parse(d, dst) ==
    LET b == XmlUnmarshal(d, dst) IN
    [err |-> IF b.err.kind # "nil" THEN b.err
             ELSE IF b.hasFault THEN FaultAsError(b.Fault)
             ELSE NoError,
     dest |-> b.dest]

----------------------------------------------------------------------------
(* The request envelope (src/request.go, the v2 file).                     *)

\* a slice: Go tells a nil slice from an empty one
NilSlice == [isNil |-> TRUE, elems |-> <<>>]
Slice(s) == [isNil |-> FALSE, elems |-> s]

\* xml.Attr{Name: xml.Name{Local: local}, Value: value}
Attr(local, value) == [Local |-> local, Value |-> value]

DefaultSoapenv == Attr("soapenv", SoapNS)

\* request bodies: a struct the encoder renders, and a value it refuses
\* (a channel, a function)
Renderable(content) == content # "unsupported"

RequestOption(kind, a, b, attrs) == [kind |-> kind, a |-> a, b |-> b, attrs |-> attrs]

\* the option constructors
BasicAuth(username, password) == RequestOption("BasicAuth", username, password, <<>>)
UserAgent(userAgent) == RequestOption("UserAgent", userAgent, "", <<>>)
ContentType(contentType) == RequestOption("ContentType", contentType, "", <<>>)
Action(action) == RequestOption("Action", action, "", <<>>)
BearerToken(token) == RequestOption("BearerToken", token, "", <<>>)
AddAttributes(attributes) == RequestOption("AddAttributes", "", "", attributes)

HasSoapenv(attributes) ==
    \E i \in 1..Len(attributes) : attributes[i].Local = "soapenv"

NotSoapenv(a) == a.Local # "soapenv"

\* the closure AddAttributes returns, applied to a request (lines 227-244)
AddAttributesApply(attributes, r) ==
    LET requestAttributes ==
          IF HasSoapenv(attributes)
            THEN SelectSeq(r.Attributes, NotSoapenv)
            ELSE r.Attributes
    IN [r EXCEPT !.Attributes = requestAttributes \o attributes]

\* an option closure applied to a request
ApplyRequestOption(o, r) ==
    CASE o.kind = "BasicAuth" -> [r EXCEPT !.username = o.a, !.password = o.b]
      [] o.kind = "UserAgent" -> [r EXCEPT !.userAgent = o.a]
      [] o.kind = "ContentType" -> [r EXCEPT !.contentType = o.a]
      [] o.kind = "Action" -> [r EXCEPT !.action = o.a]
      [] o.kind = "BearerToken" -> [r EXCEPT !.bearerToken = o.a]
      [] o.kind = "AddAttributes" -> AddAttributesApply(o.attrs, r)

\* func NewRequest(path, body, header, options ...func(*Request) error):
\* the options are accepted and no statement of the function applies them
NewRequest(path, body, header, options) ==
    [Attributes |-> <<DefaultSoapenv>>,
     Header |-> IF ~header.isNil THEN header ELSE NilSlice,
     Body |-> [Content |-> body],
     path |-> path,
     username |-> "", password |-> "", bearerToken |-> "",
     userAgent |-> "", contentType |-> "", action |-> ""]

\* an element of the encoder's output
XmlElement(name, attrs, children) ==
    [name |-> name, attrs |-> attrs, children |-> children]

NoWire == XmlElement("", <<>>, <<>>)

\* encoding/xml on the Request struct (lines 101-146): Attributes is an
\* attr field of []xml.Attr, each written under its own name, omitted when
\* empty; Header is a struct value with no omitempty, so its element is
\* always written, with one child per header element; Body likewise, its
\* nil Fault omitted and its Content written when non-nil.
EncodeRequest(r) ==
    XmlElement("soapenv:Envelope", r.Attributes,
        << XmlElement("soapenv:Header", <<>>, r.Header.elems),
           XmlElement("soapenv:Body", <<>>,
                      IF r.Body.Content = "nil" THEN <<>> ELSE <<r.Body.Content>>) >>)

\* func (r Request) Serialize() (*bytes.Buffer, error)
Serialize(r) ==
    IF Renderable(r.Body.Content)
      THEN [err |-> NoError, buff |-> EncodeRequest(r)]
      ELSE [err |-> ErrorOf("marshal", "xml: unsupported type"), buff |-> NoWire]

----------------------------------------------------------------------------
(* The client (src/v2/client.go).                                          *)

ClientOption(kind, a, b) == [kind |-> kind, a |-> a, b |-> b]

DebugMode == ClientOption("DebugMode", "", "")
DefaultBasicAuth(username, password) == ClientOption("DefaultBasicAuth", username, password)
DefaultUserAgent(userAgent) == ClientOption("DefaultUserAgent", userAgent, "")
DefaultContentType(contentType) == ClientOption("DefaultContentType", contentType, "")
DefaultAction(action) == ClientOption("DefaultAction", action, "")
DefaultBearerToken(token) == ClientOption("DefaultBearerToken", token, "")

\* debug only prints the request and the response (debugPrintXml, which
\* drops formatXML's error): it changes nothing the call returns
ApplyClientOption(o, c) ==
    CASE o.kind = "DebugMode" -> [c EXCEPT !.debug = TRUE]
      [] o.kind = "DefaultBasicAuth" -> [c EXCEPT !.username = o.a, !.password = o.b]
      [] o.kind = "DefaultUserAgent" -> [c EXCEPT !.userAgent = o.a]
      [] o.kind = "DefaultContentType" -> [c EXCEPT !.contentType = o.a]
      [] o.kind = "DefaultAction" -> [c EXCEPT !.action = o.a]
      [] o.kind = "DefaultBearerToken" -> [c EXCEPT !.bearerToken = o.a]

RECURSIVE ApplyClientOptions(_, _)
ApplyClientOptions(options, c) ==
    IF options = <<>> THEN c
    ELSE ApplyClientOptions(Tail(options), ApplyClientOption(Head(options), c))

\* func NewClient(httpClient, baseAddress, options ...func(*Client) error)
NewClient(baseAddress, options) ==
    ApplyClientOptions(options,
        [base |-> baseAddress, debug |-> FALSE,
         username |-> "", password |-> "", bearerToken |-> "",
         userAgent |-> "", contentType |-> "", action |-> ""])

\* http.Header over the names the call writes
HeaderNames == {"Content-Type", "SOAPAction", "User-Agent", "Authorization"}
EmptyHeader == [k \in HeaderNames |-> <<>>]
HeaderAdd(h, k, val) == [h EXCEPT ![k] = Append(@, val)]
HeaderSet(h, k, val) == [h EXCEPT ![k] = <<val>>]

FallbackContentType == "text/xml; charset=\"utf-8\""
FallbackUserAgent == "Go"

\* base64 of "username:password", as http.Request.SetBasicAuth writes it
BasicCredentials(username, password) ==
    "Basic b64(" \o username \o ":" \o password \o ")"

SetBasicAuth(h, username, password) ==
    HeaderSet(h, "Authorization", BasicCredentials(username, password))

ContentTypeHeaderClientFirst(c, r, h) ==
    IF c.contentType # "" THEN HeaderAdd(h, "Content-Type", c.contentType)
    ELSE IF r.contentType # "" THEN HeaderAdd(h, "Content-Type", r.contentType)
    ELSE HeaderAdd(h, "Content-Type", FallbackContentType)

\* lines 252-258
ContentTypeHeader(c, r, h) ==
    IF r.contentType # "" THEN HeaderAdd(h, "Content-Type", r.contentType)
    ELSE IF c.contentType # "" THEN HeaderAdd(h, "Content-Type", c.contentType)
    ELSE HeaderAdd(h, "Content-Type", FallbackContentType)

\* lines 260-264
ActionHeader(c, r, h) ==
    IF r.action # "" THEN HeaderAdd(h, "SOAPAction", r.action)
    ELSE IF c.action # "" THEN HeaderAdd(h, "SOAPAction", c.action)
    ELSE h

\* lines 266-272
UserAgentHeader(c, r, h) ==
    IF r.userAgent # "" THEN HeaderSet(h, "User-Agent", r.userAgent)
    ELSE IF c.userAgent # "" THEN HeaderAdd(h, "User-Agent", c.userAgent)
    ELSE HeaderSet(h, "User-Agent", FallbackUserAgent)

\* lines 276-280
BasicAuthHeader(c, r, h) ==
    IF r.username # "" THEN SetBasicAuth(h, r.username, r.password)
    ELSE IF c.username # "" THEN SetBasicAuth(h, c.username, c.password)
    ELSE h

BearerHeaderAdding(c, r, h) ==
    IF r.bearerToken # "" THEN HeaderAdd(h, "Authorization", "Bearer " \o r.bearerToken)
    ELSE IF c.bearerToken # "" THEN HeaderAdd(h, "Authorization", "Bearer " \o c.bearerToken)
    ELSE h

\* lines 282-286
BearerHeader(c, r, h) ==
    IF r.bearerToken # "" THEN HeaderSet(h, "Authorization", "Bearer " \o r.bearerToken)
    ELSE IF c.bearerToken # "" THEN HeaderSet(h, "Authorization", "Bearer " \o c.bearerToken)
    ELSE h

\* lines 245-286: the outbound request
BuildHttpRequest(c, r, buffer) ==
    [sent |-> FALSE, method |-> "POST", url |-> c.base \o r.path, body |-> buffer,
     close |-> TRUE,
     header |-> BearerHeader(c, r,
                  BasicAuthHeader(c, r,
                    UserAgentHeader(c, r,
                      ActionHeader(c, r,
                        ContentTypeHeader(c, r, EmptyHeader)))))]

NoHttpReq ==
    [sent |-> FALSE, method |-> "", url |-> "", body |-> NoWire, close |-> FALSE,
     header |-> EmptyHeader]

\* what the injected HttpClient.Do and the read of the body can give
NoRes == [kind |-> "none", status |-> 0, readOK |-> FALSE, body |-> EmptyData]
TransportError == [kind |-> "error", status |-> 0, readOK |-> FALSE, body |-> EmptyData]
Response(status, readOK, body) ==
    [kind |-> "response", status |-> status, readOK |-> readOK, body |-> body]

NoData == [kind |-> "none", root |-> "", hasBody |-> FALSE, body |-> <<>>]

ShortCircuitNever(rawbody) == FALSE

\* line 298: len(rawbody) == 0
ShortCircuit(rawbody) == rawbody.kind = "empty"

\* func (c *Client) CallWithContext(ctx, soapReq, response) error, with t
\* what the transport gives: the error, the destination as the call leaves
\* it, the request handed to the transport, the bytes handed to Parse
CallWithContext(c, r, response, t) ==
    LET ser == Serialize(r)
        hr == BuildHttpRequest(c, r, ser.buff)
        out == [err |-> NoError, dest |-> response, httpReq |-> NoHttpReq,
                res |-> NoRes, data |-> NoData, parsed |-> FALSE]
        sent == [out EXCEPT !.httpReq = [hr EXCEPT !.sent = TRUE], !.res = t]
    IN
    IF ser.err.kind # "nil" THEN [out EXCEPT !.err = ser.err]
    ELSE IF t.kind = "error" THEN [sent EXCEPT !.err = ErrorOf("transport", "Do failed")]
    ELSE IF ~t.readOK THEN [sent EXCEPT !.err = ErrorOf("read", "ReadAll failed")]
    ELSE IF ShortCircuit(t.body) THEN sent
    ELSE LET p == Parse(t.body, response) IN
         [sent EXCEPT !.err = p.err, !.dest = p.dest, !.data = t.body, !.parsed = TRUE]

----------------------------------------------------------------------------
(* Inputs *)

BaseAddress == "http://svc"
Path == "/op"

RequestBodies == {"payload", "unsupported"}
HeaderElements == {"h1", "h2"}
HeaderLists == {NilSlice} \cup { Slice(s) : s \in SeqsUpTo(HeaderElements, MaxHeaders) }

\* options that set the transport metadata of a request, the empty string
\* included
MetaOptions ==
    { BasicAuth("ru", "rp"), BasicAuth("", ""),
      BearerToken("rt"), BearerToken(""),
      UserAgent("B"), UserAgent(""),
      ContentType("application/soap+xml"), ContentType(""),
      Action("urn:req"), Action("") }

AttrX == Attr("soapenv", "X")
AttrY == Attr("soapenv", "Y")
AttrN == Attr("ns1", "urn:n")

AttrOptions ==
    { AddAttributes(<<AttrX>>), AddAttributes(<<AttrY>>), AddAttributes(<<AttrN>>),
      AddAttributes(<<AttrN, AttrX>>) }

AttrOptionLists == SeqsUpTo(AttrOptions, 2)

\* the client options, each given at most once, in a fixed order
AllClientOptions ==
    << DebugMode, DefaultBasicAuth("cu", "cp"), DefaultBearerToken("ct"),
       DefaultUserAgent("A"), DefaultContentType("application/xml"),
       DefaultAction("urn:client") >>

ClientOptionLists ==
    { SelectSeq(AllClientOptions, LAMBDA o : o \in S)
        : S \in SUBSET { AllClientOptions[i] : i \in 1..Len(AllClientOptions) } }

Fault1 == CHOOSE f \in FaultElements : f.fault.Actor = "svc"
App1 == Element(AppNS, "Resp", "r1", NoFault)
App2 == Element(AppNS, "Resp", "r2", NoFault)

CallDocs ==
    { EmptyData, Garbage, XmlDoc("Envelope", FALSE, <<>>), XmlDoc("Envelope", TRUE, <<>>),
      XmlDoc("Envelope", TRUE, <<Fault1>>), XmlDoc("Envelope", TRUE, <<App1>>),
      XmlDoc("Envelope", TRUE, <<App1, App2>>) }

TransportOutcomes ==
    {TransportError}
      \cup { Response(st, TRUE, d) : st \in {200, 500}, d \in CallDocs }
      \cup { Response(st, FALSE, EmptyData) : st \in {200, 500} }

CallDests == {NilDest, "zero"}

----------------------------------------------------------------------------
(* States and actions.  The caller is one thread: an operation runs to its *)
(* return, its results are there to be read, and they are dropped (Return) *)
(* before the next operation starts.                                       *)

NoCallVars == <<wire, httpReq, res, data, v, dest, err, parsed>>

Init ==
    /\ client = NewClient(BaseAddress, <<>>)
    /\ request = NewRequest(Path, "payload", NilSlice, <<>>)
    /\ opts = <<>>
    /\ wire = NoWire
    /\ httpReq = NoHttpReq
    /\ res = NoRes
    /\ data = NoData
    /\ v = "none"
    /\ dest = "none"
    /\ err = NoError
    /\ parsed = FALSE
    /\ op = "idle"

\* the caller builds a client
NewClientStep ==
    /\ op = "idle"
    /\ \E os \in ClientOptionLists : client' = NewClient(BaseAddress, os)
    /\ UNCHANGED <<request, opts, op>>
    /\ UNCHANGED NoCallVars

\* the caller builds a request
NewRequestWith(headers, optionLists) ==
    /\ op = "idle"
    /\ \E body \in RequestBodies, header \in headers, os \in optionLists :
        /\ request' = NewRequest(Path, body, header, os)
        /\ opts' = os
    /\ UNCHANGED <<client, op>>
    /\ UNCHANGED NoCallVars

\* the caller applies an option closure to the request it holds
ApplyOptionFrom(options) ==
    /\ op = "idle"
    /\ \E o \in options :
        /\ Len(ApplyRequestOption(o, request).Attributes) <= MaxAttrs
        /\ request' = ApplyRequestOption(o, request)
    /\ opts' = <<>>
    /\ UNCHANGED <<client, op>>
    /\ UNCHANGED NoCallVars

\* the caller serializes the request it holds
SerializeStep ==
    /\ op = "idle"
    /\ LET ser == Serialize(request) IN
        /\ wire' = ser.buff
        /\ err' = ser.err
    /\ op' = "Serialize"
    /\ UNCHANGED <<client, request, opts, httpReq, res, data, v, dest, parsed>>

\* the caller makes a call
CallStep ==
    /\ op = "idle"
    /\ \E response \in CallDests, t \in TransportOutcomes :
        LET out == CallWithContext(client, request, response, t) IN
            /\ httpReq' = out.httpReq
            /\ wire' = out.httpReq.body
            /\ res' = out.res
            /\ data' = out.data
            /\ v' = response
            /\ dest' = out.dest
            /\ err' = out.err
            /\ parsed' = out.parsed
    /\ op' = "Call"
    /\ UNCHANGED <<client, request, opts>>

\* the caller parses a response it holds
ParseStep ==
    /\ op = "idle"
    /\ \E d \in Docs, response \in DestValues :
        LET p == Parse(d, response) IN
            /\ data' = d
            /\ v' = response
            /\ dest' = p.dest
            /\ err' = p.err
    /\ parsed' = TRUE
    /\ op' = "Parse"
    /\ UNCHANGED <<client, request, opts, wire, httpReq, res>>

\* the operation has returned and the caller has read its results
Return ==
    /\ op # "idle"
    /\ op' = "idle"
    /\ wire' = NoWire
    /\ httpReq' = NoHttpReq
    /\ res' = NoRes
    /\ data' = NoData
    /\ v' = "none"
    /\ dest' = "none"
    /\ err' = NoError
    /\ parsed' = FALSE
    /\ UNCHANGED <<client, request, opts>>

CallNewRequest == NewRequestWith({NilSlice}, {<<>>})
CallApplyOption == ApplyOptionFrom(MetaOptions)

ReqNewRequest == NewRequestWith(HeaderLists, AttrOptionLists)
ReqApplyOption == ApplyOptionFrom(AttrOptions)

Next == NewClientStep \/ CallNewRequest \/ CallApplyOption \/ CallStep \/ Return
Spec == Init /\ [][Next]_vars

NextReq == ReqNewRequest \/ ReqApplyOption \/ SerializeStep \/ Return
SpecReq == Init /\ [][NextReq]_vars

NextParse == ParseStep \/ Return
SpecParse == Init /\ [][NextParse]_vars

----------------------------------------------------------------------------
(* Properties of Parse (SpecParse) *)

IsBad(c) == c.t = "bad"
ElementsOf(body) == SelectSeq(body, IsElement)
WellFormed(body) == SelectSeq(body, IsBad) = <<>>
IsApp(c) == IsElement(c) /\ ~IsFaultName(c)

\* the last call was Parse on an envelope with a well-formed Body
ParsedBody ==
    /\ op = "Parse"
    /\ data.kind = "xml" /\ data.root = "Envelope" /\ data.hasBody
    /\ WellFormed(data.body)

\* C1: a Body whose only child element is the SOAP-namespace Fault makes
\* Parse, given a destination, return that Fault as the error, with the
\* message "Soap Fault: {code}: [{actor}] {string}", and leave the
\* destination as it was.
C1_FaultPriority ==
    (/\ ParsedBody
     /\ v # NilDest
     /\ Len(ElementsOf(data.body)) = 1
     /\ IsFaultName(ElementsOf(data.body)[1]))
    => LET f == ElementsOf(data.body)[1].fault IN
        /\ err.kind = "fault"
        /\ err.fault = f
        /\ err.msg = "Soap Fault: " \o f.Code \o ": [" \o f.Actor \o "] " \o f.String
        /\ (f.Code = "Server.Error" /\ f.Actor = "svc" /\ f.String = "boom"
              => err.msg = "Soap Fault: Server.Error: [svc] boom")
        /\ dest = v

C1_Witness ==
    /\ op = "Parse"
    /\ v = "old"
    /\ data = XmlDoc("Envelope", TRUE, <<CharData, Fault1>>)
    /\ err.msg = "Soap Fault: Server.Error: [svc] boom"
    /\ dest = "old"

\* the last call was Parse on a Body of two or more application elements
TwoApplicationElements ==
    /\ ParsedBody
    /\ Len(ElementsOf(data.body)) >= 2
    /\ \A i \in 1..Len(ElementsOf(data.body)) : IsApp(ElementsOf(data.body)[i])

ContainsFault(body) ==
    \E i \in 1..Len(ElementsOf(body)) : IsFaultName(ElementsOf(body)[i])

C8_NilDestinationFails ==
    (op = "Parse" /\ v = NilDest) => err.kind \notin {"nil", "fault"}

\* the input is an envelope that holds no Body element
NoBodyEnvelope == data.kind = "xml" /\ data.root = "Envelope" /\ ~data.hasBody

\* C8, amended: with a nil destination Parse returns an error that is no
\* Fault for every input but an envelope without a Body element: the
\* descriptive "Content must be a pointer to a struct" whenever the decoder
\* reaches a Body (a fault response, a content response, an empty Body).
\* For an envelope without a Body element it returns no error.
C8_NilDestinationFailsAmended ==
    (op = "Parse" /\ v = NilDest)
    => /\ ~NoBodyEnvelope => err.kind \notin {"nil", "fault"}
       /\ (data.kind = "xml" /\ data.root = "Envelope" /\ data.hasBody)
            => err.kind = "unmarshal" /\ err.msg = MsgNilContent
       /\ NoBodyEnvelope => err = NoError
       /\ dest = NilDest

C8_Witness ==
    /\ op = "Parse"
    /\ v = NilDest
    /\ data = XmlDoc("Envelope", TRUE, <<Fault1>>)
    /\ err.msg = MsgNilContent

\* C9: a well-formed Body without child elements, parsed into a destination
\* that is given, gives no error and leaves the destination as it was; the
\* scan ends at the Body's closing tag, and the multiple-elements error is
\* returned only when the Body holds two child elements or more.
C9_ZeroChildrenBenign ==
    /\ (ParsedBody /\ v # NilDest /\ ElementsOf(data.body) = <<>>)
         => err = NoError /\ dest = v
    /\ (op = "Parse" /\ err.msg = MsgMultiple)
         => data.hasBody /\ Len(ElementsOf(data.body)) >= 2
    /\ (ParsedBody /\ v # NilDest /\ Len(ElementsOf(data.body)) = 1)
         => err.kind \in {"nil", "fault"}

C9_Witness ==
    /\ op = "Parse"
    /\ v = "old"
    /\ data = XmlDoc("Envelope", TRUE, <<CharData, CharData>>)
    /\ err = NoError
    /\ dest = "old"

----------------------------------------------------------------------------
(* Properties of CallWithContext (Spec) *)

\* the last operation was a call that handed a request to the transport
Called == op = "Call" /\ httpReq.sent

\* C4: when the transport returns a response whose body is zero bytes long,
\* whatever its status, the call returns no error, Parse is not invoked and
\* the destination is left as it was.
C4_EmptyBodyShortCircuit ==
    (/\ op = "Call"
     /\ res.kind = "response" /\ res.readOK
     /\ res.body.kind = "empty")
    => /\ err = NoError
       /\ ~parsed
       /\ data = NoData
       /\ dest = v

C4_Witness ==
    /\ op = "Call"
    /\ res = Response(500, TRUE, EmptyData)
    /\ v = "zero"
    /\ dest = "zero"
    /\ err = NoError
    /\ ~parsed

\* the values of header k when the request level gives r, the client level
\* gives c and the fallback is the values fb
Layered(k, r, c, fb) ==
    /\ r # "" => httpReq.header[k] = <<r>>
    /\ (r = "" /\ c # "") => httpReq.header[k] = <<c>>
    /\ (r = "" /\ c = "") => httpReq.header[k] = fb

\* C5: Content-Type, SOAPAction and User-Agent of the outbound request each
\* carry the request's value when it is not empty, else the client's when
\* that is not empty, else the fallback: text/xml; charset="utf-8", the
\* User-Agent Go, and no SOAPAction header.
C5_LayeredPrecedence ==
    Called
    => /\ Layered("Content-Type", request.contentType, client.contentType,
                  <<"text/xml; charset=\"utf-8\"">>)
       /\ Layered("SOAPAction", request.action, client.action, <<>>)
       /\ Layered("User-Agent", request.userAgent, client.userAgent, <<"Go">>)

C5_Witness ==
    /\ Called
    /\ request.userAgent = "B" /\ client.userAgent = "A"
    /\ httpReq.header["User-Agent"] = <<"B">>
    /\ request.contentType = "" /\ client.contentType = "application/xml"
    /\ httpReq.header["Content-Type"] = <<"application/xml">>
    /\ request.action = "" /\ client.action = ""
    /\ httpReq.header["SOAPAction"] = <<>>

\* C10: the outbound request carries one Authorization value at most.  With
\* a bearer token at either level it is "Bearer <token>", the request's
\* token before the client's, whatever basic credentials are set; the Basic
\* credentials are sent only when no level has a bearer token.
C10_BearerOverBasic ==
    Called
    => LET token == IF request.bearerToken # "" THEN request.bearerToken
                    ELSE client.bearerToken
           user == IF request.username # "" THEN request.username ELSE client.username
           pass == IF request.username # "" THEN request.password ELSE client.password
           auth == httpReq.header["Authorization"]
       IN /\ Len(auth) <= 1
          /\ token # "" => auth = <<"Bearer " \o token>>
          /\ (token = "" /\ user # "")
               => auth = <<"Basic b64(" \o user \o ":" \o pass \o ")">>
          /\ (token = "" /\ user = "") => auth = <<>>

C10_Witness ==
    /\ Called
    /\ request.username = "ru"
    /\ client.username = "cu"
    /\ request.bearerToken = "rt"
    /\ client.bearerToken = "ct"
    /\ httpReq.header["Authorization"] = <<"Bearer rt">>

----------------------------------------------------------------------------
(* Properties of the request envelope (SpecReq) *)

IsSoapenv(a) == a.Local = "soapenv"

\* the attributes the options of a list supply, in order
RECURSIVE SuppliedAttributes(_)
SuppliedAttributes(options) ==
    IF options = <<>> THEN <<>>
    ELSE (IF Head(options).kind = "AddAttributes" THEN Head(options).attrs ELSE <<>>)
           \o SuppliedAttributes(Tail(options))

\* C6: NewRequest applies the options it is given, in order: with an option
\* supplying a soapenv attribute, the envelope's soapenv attribute is the
\* value of the last one supplied, and not the default; with none, it is
\* the default.
C6_OptionsApplied ==
    LET supplied == SelectSeq(SuppliedAttributes(opts), IsSoapenv)
        have == SelectSeq(request.Attributes, IsSoapenv)
    IN (op = "idle" /\ opts # <<>>)
       => IF supplied # <<>>
            THEN have = <<supplied[Len(supplied)]>>
            ELSE have = <<DefaultSoapenv>>

HasHeaderElement(w) ==
    \E i \in 1..Len(w.children) : w.children[i].name = "soapenv:Header"

\* C7: the serialized envelope holds a Header element exactly when the
\* request was built with one header element or more; with a nil or an
\* empty header list it holds none, not even an empty one.
C7_HeaderOmitted ==
    (op = "Serialize" /\ err = NoError)
    => (HasHeaderElement(wire) <=> Len(request.Header.elems) >= 1)

====
